---- MODULE Spec2Model ----
(***************************************************************************)
(* Model of Resume_bot_StreamLit_v1.py, a Streamlit chat page.             *)
(*                                                                         *)
(* Streamlit executes the script from its first line on every interaction  *)
(* of a session.  st.session_state is the only per-session state that      *)
(* survives from one execution to the next; chat_logs.txt is shared by     *)
(* every session.  Text is modelled as a sequence of tokens, a token being *)
(* either one character or a literal piece of a fixed string.              *)
(***************************************************************************)
EXTENDS Naturals, Sequences, FiniteSets

VARIABLES
    session_state,   \* per session: st.session_state (<<>> or [messages |-> ...])
    pc,              \* per session: position of the running script
    prompt,          \* per session: value returned by st.chat_input
    full_response,   \* per session: value returned by get_groq_response
    groq_client,     \* per session run: TRUE when Groq() built a client, FALSE for None
    summary,         \* per session run: text read from me/summary.txt
    linkedin,        \* per session run: text extracted from me/linkedin.pdf
    system_prompt,   \* per session run: the formatted system prompt
    notices,         \* per session run: st.warning / st.error calls of the run
    panel,           \* per session run: the two st.code blocks of the expander
    chat_logs,       \* content of chat_logs.txt
    stdout,          \* lines written by print
    files,           \* per session: files and environment read by the last run
    calls,           \* per session: message lists passed to chat.completions.create
    history,         \* the prompts received by chat_input, in order
    outcomes         \* per session: how each get_groq_response call ended

vars == <<session_state, pc, prompt, full_response, groq_client, summary,
          linkedin, system_prompt, notices, panel, chat_logs, stdout, files,
          calls, history, outcomes>>

----------------------------------------------------------------------------
(* Bounds of the model *)

\* total number of prompts submitted, all sessions together
MaxSubmissions == 2

\* number of pages of the PDF in the loader's inputs
MaxPages == 2

Sessions == {"s1", "s2"}

FirstSession == "s1"

----------------------------------------------------------------------------
(* Text helpers *)

Min(a, b) == IF a < b THEN a ELSE b

Alphabet == <<"a", "b", "c", "d", "e", "f", "g">>

\* a text of n characters, not all equal
Text(n) == [i \in 1..n |-> Alphabet[(i % 7) + 1]]

\* s[:n]
Take(s, n) == SubSeq(s, 1, Min(n, Len(s)))

IsPrefix(s, t) == Len(s) <= Len(t) /\ SubSeq(t, 1, Len(s)) = s

RECURSIVE Flatten(_)
Flatten(ss) == IF ss = <<>> THEN <<>> ELSE Head(ss) \o Flatten(Tail(ss))

\* number of "\n" tokens of a text
RECURSIVE Newlines(_)
Newlines(s) ==
    IF s = <<>> THEN 0
    ELSE (IF Head(s) = "\n" THEN 1 ELSE 0) + Newlines(Tail(s))

----------------------------------------------------------------------------
(* Constants of the script *)

name == "Salman Mohd"
primary_role_1 == "SAP HANA Administrator"
primary_role_2 == "Agentic AI Beginner"

\* linkedin[:500]
PreviewLimit == 500

Ellipsis == <<".", ".", ".">>

NoLinkedin == <<"No LinkedIn data loaded.">>
NoSummary == <<"No summary loaded.">>

NotInitialized ==
    <<"The Groq client is not initialized. Cannot generate a response.">>

ErrorPrefix ==
    "An error occurred while communicating with the Groq API. This could be a connectivity issue or an invalid API key. Error: "

\* the first element of st.session_state["messages"]
Greeting ==
    [role |-> "assistant",
     content |-> <<"Hello! I'm ", name, "'s AI assistant. I can answer questions about Salman's experience in **",
                   primary_role_1, "** and **", primary_role_2,
                   "**. What would you like to know?">>]

\* datetime.now().strftime("%Y-%m-%d %H:%M:%S")
Timestamp == "YYYY-MM-DD HH:MM:SS"

----------------------------------------------------------------------------
(* Inputs *)

\* what chat_input returns when the user has submitted nothing
NoPrompt == <<>>

Prompts == {<<"H", "i">>, <<"a", "\n", "b">>}

\* texts the completion API returns
Replies == {<<"Hello, World">>}

\* str(e) of the exceptions chat.completions.create raises
ApiErrors == {<<"Connection error.">>}

\* one page of the PDF: extract_text raises, or returns text ("" and None alike
\* are the empty text)
PageTexts == {<<>>, Text(1), Text(PreviewLimit - 1), Text(PreviewLimit + 1)}
Pages == [raises : {FALSE}, text : PageTexts] \cup {[raises |-> TRUE, text |-> <<>>]}

PageLists == UNION {[1..n -> Pages] : n \in 0..MaxPages}

\* me/linkedin.pdf: absent, or PdfReader raises, or a list of pages
Pdfs ==
    {[exists |-> FALSE, opens |-> FALSE, pages |-> <<>>],
     [exists |-> TRUE, opens |-> FALSE, pages |-> <<>>]}
    \cup [exists : {TRUE}, opens : {TRUE}, pages : PageLists]

\* me/summary.txt: absent, or open/read raises, or a text
SummaryFiles ==
    {[exists |-> FALSE, reads |-> FALSE, text |-> <<>>],
     [exists |-> TRUE, reads |-> FALSE, text |-> <<>>]}
    \cup [exists : {TRUE}, reads : {TRUE}, text : {<<>>, Text(2)}]

\* key: whether Groq() finds a usable GROQ_API_KEY.  The inputs of the loader:
\* every state of the two files, the key being there
LoaderEnvironments == [key : {TRUE}, pdf : Pdfs, summary : SummaryFiles]

\* the environments of the chat runs: the client is or is not available, the
\* summary file is or is not there, the PDF has one short page
ChatEnvironments ==
    [key : BOOLEAN,
     pdf : {[exists |-> TRUE, opens |-> TRUE,
             pages |-> <<[raises |-> FALSE, text |-> Text(3)]>>]},
     summary : {[exists |-> FALSE, reads |-> FALSE, text |-> <<>>],
                [exists |-> TRUE, reads |-> TRUE, text |-> Text(2)]}]

\* the environments of the runs of several sessions
TabEnvironments ==
    {env \in ChatEnvironments : env.summary.exists}

NoFiles ==
    [key |-> FALSE,
     pdf |-> [exists |-> FALSE, opens |-> FALSE, pages |-> <<>>],
     summary |-> [exists |-> FALSE, reads |-> FALSE, text |-> <<>>]]

----------------------------------------------------------------------------
(* Client initialization, lines 15-19 *)

ClientNotices(env) ==
    IF env.key THEN <<>> ELSE <<[kind |-> "error", about |-> "groq"]>>

(* Data loading, lines 32-55 *)

\* the loop over reader.pages: linkedin grows page by page, and an exception
\* leaves the loop with what was accumulated so far
RECURSIVE ReadPages(_, _)
ReadPages(pages, acc) ==
    IF pages = <<>> THEN [text |-> acc, raised |-> FALSE]
    ELSE IF Head(pages).raises THEN [text |-> acc, raised |-> TRUE]
    ELSE ReadPages(Tail(pages), acc \o Head(pages).text)

LoadLinkedin(pdf) ==
    IF ~pdf.exists
    THEN [text |-> <<>>, notices |-> <<[kind |-> "warning", about |-> "pdf"]>>]
    ELSE IF ~pdf.opens
    THEN [text |-> <<>>, notices |-> <<[kind |-> "error", about |-> "pdf"]>>]
    ELSE LET r == ReadPages(pdf.pages, <<>>)
         IN  [text |-> r.text,
              notices |-> IF r.raised
                          THEN <<[kind |-> "error", about |-> "pdf"]>>
                          ELSE <<>>]

LoadSummary(file) ==
    IF ~file.exists
    THEN [text |-> <<>>, notices |-> <<[kind |-> "warning", about |-> "summary"]>>]
    ELSE IF ~file.reads
    THEN [text |-> <<>>, notices |-> <<[kind |-> "error", about |-> "summary"]>>]
    ELSE [text |-> file.text, notices |-> <<>>]

(* The system prompt, lines 59-77 *)

SystemPrompt(sum, lnk) ==
    <<"\nYou are acting as ", name, ". You are answering questions on ", name,
      "'s website, particularly questions related to ", name,
      "'s career, background, skills, and experience as a **",
      primary_role_1, "** and **", primary_role_2, "**. ...\n\n## Summary:\n">>
    \o sum
    \o <<"\n\n## LinkedIn Profile:\n">>
    \o lnk
    \o <<"\n\nWith this context, please chat with the user, always staying in character as ",
         name, ".\n">>

(* The expander, lines 118-123 *)

SummaryBlock(sum) == IF sum # <<>> THEN sum ELSE NoSummary

\* the ellipsis added only to a truncated text
Preview_OnlyIfTruncated(lnk) ==
    IF lnk # <<>>
    THEN Take(lnk, PreviewLimit)
         \o (IF Len(lnk) > PreviewLimit THEN Ellipsis ELSE <<>>)
    ELSE NoLinkedin

\* linkedin[:500] + "..." if linkedin else "No LinkedIn data loaded."
Preview(lnk) ==
    IF lnk # <<>> THEN Take(lnk, PreviewLimit) \o Ellipsis ELSE NoLinkedin

----------------------------------------------------------------------------
(* st.session_state *)

\* a session that has run nothing yet holds no key
NoKeys == [k \in {} |-> <<>>]

HasMessages(s) == "messages" \in DOMAIN session_state[s]

\* st.session_state.messages
Transcript(s) == session_state[s]["messages"]

\* lines 128-131 without the test of line 128
InitMessages_Always(state) == [k \in {"messages"} |-> <<Greeting>>]

\* lines 128-131
InitMessages(state) ==
    IF "messages" \in DOMAIN state
    THEN state
    ELSE [k \in {"messages"} |-> <<Greeting>>]

\* st.session_state.messages.append(turn)
AppendTurn(state, turn) ==
    [k \in {"messages"} |-> Append(state["messages"], turn)]

----------------------------------------------------------------------------
(* The audit log, lines 145-159 *)

\* why open or write raises
LogErrors == {"Permission denied"}

LogEntry(user_prompt) ==
    <<"[", Timestamp, "] USER PROMPT: ">> \o user_prompt \o <<"\n">>

\* the file opened with mode "w"
LogWrite_Overwrite(log, user_prompt, w) ==
    IF w = "ok" THEN LogEntry(user_prompt) ELSE log

\* log_user_prompt: w = "ok" when open("chat_logs.txt", "a") and write succeed
LogWrite(log, user_prompt, w) ==
    IF w = "ok" THEN log \o LogEntry(user_prompt) ELSE log

LogPrint(out, w) ==
    IF w = "ok" THEN out ELSE Append(out, <<"Error logging prompt: ", w>>)

----------------------------------------------------------------------------
(* get_groq_response, lines 81-102 *)

\* lines 87-93, sending the latest turn only
BuildMessages_LatestOnly(sp, chat_history) ==
    <<[role |-> "system", content |-> sp],
      [role |-> chat_history[Len(chat_history)].role,
       content |-> chat_history[Len(chat_history)].content]>>

\* lines 87-93
BuildMessages(sp, chat_history) ==
    <<[role |-> "system", content |-> sp]>>
    \o [i \in 1..Len(chat_history) |->
            [role |-> chat_history[i].role, content |-> chat_history[i].content]]

\* line 102
ErrorText(e) == <<ErrorPrefix>> \o e

----------------------------------------------------------------------------
(* One execution of the script *)

Init ==
    /\ session_state = [s \in Sessions |-> NoKeys]
    /\ pc = [s \in Sessions |-> "idle"]
    /\ prompt = [s \in Sessions |-> NoPrompt]
    /\ full_response = [s \in Sessions |-> <<>>]
    /\ groq_client = [s \in Sessions |-> FALSE]
    /\ summary = [s \in Sessions |-> <<>>]
    /\ linkedin = [s \in Sessions |-> <<>>]
    /\ system_prompt = [s \in Sessions |-> <<>>]
    /\ notices = [s \in Sessions |-> <<>>]
    /\ panel = [s \in Sessions |-> [summary |-> <<>>, snippet |-> <<>>]]
    /\ chat_logs = <<>>
    /\ stdout = <<>>
    /\ files = [s \in Sessions |-> NoFiles]
    /\ calls = [s \in Sessions |-> <<>>]
    /\ history = <<>>
    /\ outcomes = [s \in Sessions |-> <<>>]

\* lines 145-159 without the try: what open or write raises ends the run
LogUserPrompt_Uncaught(s, p, w) ==
    IF w = "ok"
    THEN /\ chat_logs' = LogWrite(chat_logs, p, w)
         /\ stdout' = stdout
         /\ pc' = [pc EXCEPT ![s] = "append_user"]
    ELSE UNCHANGED <<chat_logs, stdout, pc>>

\* Lines 145-159: log_user_prompt catches what open and write raise, prints it,
\* and the script goes on to line 164
LogUserPrompt(s, p, w) ==
    /\ chat_logs' = LogWrite(chat_logs, p, w)
    /\ stdout' = LogPrint(stdout, w)
    /\ pc' = [pc EXCEPT ![s] = "append_user"]

\* Lines 12-159: the script runs from the top in session s, reading env; p is
\* what chat_input returns and w how the write to chat_logs.txt ends.  Nothing
\* but the log write touches state shared with other sessions.
RunScript(s, env, p, w) ==
    LET lnk == LoadLinkedin(env.pdf)
        sm == LoadSummary(env.summary)
    IN  /\ pc[s] = "idle"
        /\ p # NoPrompt => Len(history) < MaxSubmissions
        /\ files' = [files EXCEPT ![s] = env]
        /\ groq_client' = [groq_client EXCEPT ![s] = env.key]
        /\ linkedin' = [linkedin EXCEPT ![s] = lnk.text]
        /\ summary' = [summary EXCEPT ![s] = sm.text]
        /\ notices' = [notices EXCEPT
                         ![s] = ClientNotices(env) \o lnk.notices \o sm.notices]
        /\ system_prompt' = [system_prompt EXCEPT
                               ![s] = SystemPrompt(sm.text, lnk.text)]
        /\ panel' = [panel EXCEPT ![s] = [summary |-> SummaryBlock(sm.text),
                                          snippet |-> Preview(lnk.text)]]
        /\ session_state' = [session_state EXCEPT ![s] = InitMessages(@)]
        /\ prompt' = [prompt EXCEPT ![s] = p]
        /\ IF p # NoPrompt
           THEN /\ history' = Append(history, [session |-> s, prompt |-> p,
                                               logged |-> (w = "ok")])
                /\ LogUserPrompt(s, p, w)
           ELSE /\ UNCHANGED <<chat_logs, stdout, history, pc>>
        /\ UNCHANGED <<full_response, calls, outcomes>>

\* Line 164
AppendUser(s) ==
    /\ pc[s] = "append_user"
    /\ session_state' = [session_state EXCEPT
                           ![s] = AppendTurn(@, [role |-> "user",
                                                 content |-> prompt[s]])]
    /\ pc' = [pc EXCEPT ![s] = "call"]
    /\ UNCHANGED <<prompt, full_response, groq_client, summary, linkedin,
                   system_prompt, notices, panel, chat_logs, stdout, files,
                   calls, history, outcomes>>

\* lines 171 and 86-99, without the test of line 83
GetGroqResponse_NoGuard(s) ==
    /\ pc[s] = "call"
    /\ calls' = [calls EXCEPT
                   ![s] = Append(@, BuildMessages(system_prompt[s],
                                                  Transcript(s)))]
    /\ pc' = [pc EXCEPT ![s] = "awaiting"]
    /\ UNCHANGED <<session_state, prompt, full_response, groq_client, summary,
                   linkedin, system_prompt, notices, panel, chat_logs, stdout,
                   files, history, outcomes>>

\* Lines 171 and 83-99: without a client the fixed text is returned at once;
\* otherwise the request is sent and the script blocks
GetGroqResponse(s) ==
    /\ pc[s] = "call"
    /\ IF ~groq_client[s]
       THEN /\ full_response' = [full_response EXCEPT ![s] = NotInitialized]
            /\ outcomes' = [outcomes EXCEPT
                              ![s] = Append(@, [kind |-> "uninitialized",
                                                text |-> <<>>])]
            /\ pc' = [pc EXCEPT ![s] = "append_assistant"]
            /\ UNCHANGED calls
       ELSE /\ calls' = [calls EXCEPT
                           ![s] = Append(@, BuildMessages(system_prompt[s],
                                                          Transcript(s)))]
            /\ pc' = [pc EXCEPT ![s] = "awaiting"]
            /\ UNCHANGED <<full_response, outcomes>>
    /\ UNCHANGED <<session_state, prompt, groq_client, summary, linkedin,
                   system_prompt, notices, panel, chat_logs, stdout, files,
                   history>>

\* Line 100: the API returns a completion
ApiReturn(s, content) ==
    /\ pc[s] = "awaiting"
    /\ full_response' = [full_response EXCEPT ![s] = content]
    /\ outcomes' = [outcomes EXCEPT
                      ![s] = Append(@, [kind |-> "returned", text |-> content])]
    /\ pc' = [pc EXCEPT ![s] = "append_assistant"]
    /\ UNCHANGED <<session_state, prompt, groq_client, summary, linkedin,
                   system_prompt, notices, panel, chat_logs, stdout, files,
                   calls, history>>

\* the call raises e and nothing catches it: the run ends
ApiRaise_Uncaught(s, e) ==
    /\ pc[s] = "awaiting"
    /\ outcomes' = [outcomes EXCEPT
                      ![s] = Append(@, [kind |-> "raised", text |-> e])]
    /\ pc' = [pc EXCEPT ![s] = "idle"]
    /\ UNCHANGED <<session_state, prompt, full_response, groq_client, summary,
                   linkedin, system_prompt, notices, panel, chat_logs, stdout,
                   files, calls, history>>

\* Lines 101-102: the call raises e, which the handler catches
ApiRaise(s, e) ==
    /\ pc[s] = "awaiting"
    /\ full_response' = [full_response EXCEPT ![s] = ErrorText(e)]
    /\ outcomes' = [outcomes EXCEPT
                      ![s] = Append(@, [kind |-> "raised", text |-> e])]
    /\ pc' = [pc EXCEPT ![s] = "append_assistant"]
    /\ UNCHANGED <<session_state, prompt, groq_client, summary, linkedin,
                   system_prompt, notices, panel, chat_logs, stdout, files,
                   calls, history>>

\* line 178 on a list shared by all sessions
AppendAssistant_Shared(s) ==
    /\ pc[s] = "append_assistant"
    /\ session_state' =
           [t \in Sessions |->
               IF "messages" \in DOMAIN session_state[t]
               THEN AppendTurn(session_state[t],
                               [role |-> "assistant",
                                content |-> full_response[s]])
               ELSE session_state[t]]
    /\ pc' = [pc EXCEPT ![s] = "idle"]
    /\ UNCHANGED <<prompt, full_response, groq_client, summary, linkedin,
                   system_prompt, notices, panel, chat_logs, stdout, files,
                   calls, history, outcomes>>

\* Line 178, the last line of the script
AppendAssistant(s) ==
    /\ pc[s] = "append_assistant"
    /\ session_state' = [session_state EXCEPT
                           ![s] = AppendTurn(@, [role |-> "assistant",
                                                 content |-> full_response[s]])]
    /\ pc' = [pc EXCEPT ![s] = "idle"]
    /\ UNCHANGED <<prompt, full_response, groq_client, summary, linkedin,
                   system_prompt, notices, panel, chat_logs, stdout, files,
                   calls, history, outcomes>>

\* the steps the script takes by itself once a prompt was received
Handle(s) ==
    \/ AppendUser(s)
    \/ GetGroqResponse(s)
    \/ AppendAssistant(s)

\* the completion API answers
Respond(s) ==
    \/ \E content \in Replies : ApiReturn(s, content)
    \/ \E e \in ApiErrors : ApiRaise(s, e)

\* a user interaction of session s: the script is run again
Interact(s) ==
    \E env \in ChatEnvironments, p \in Prompts \cup {NoPrompt},
       w \in {"ok"} \cup LogErrors :
        RunScript(s, env, p, w)

\* One browser session, on every input of the chat.
Next ==
    \/ Interact(FirstSession)
    \/ Handle(FirstSession)
    \/ Respond(FirstSession)

Spec == Init /\ [][Next]_vars

\* Several sessions side by side, each with its own script thread.
TabInteract(s) ==
    \E env \in TabEnvironments, p \in Prompts \cup {NoPrompt} :
        RunScript(s, env, p, "ok")

TabsNext ==
    \E s \in Sessions :
        \/ TabInteract(s)
        \/ Handle(s)
        \/ Respond(s)

\* The script thread runs on, and the API call returns or raises in the end.
LiveSpec ==
    /\ Init
    /\ [][TabsNext]_vars
    /\ \A s \in Sessions : WF_vars(Handle(s)) /\ WF_vars(Respond(s))

\* The top of the script alone, on every file input: no prompt is submitted.
Load(s) == \E env \in LoaderEnvironments : RunScript(s, env, NoPrompt, "ok")

LoaderNext == Load(FirstSession)

LoaderSpec == Init /\ [][LoaderNext]_vars

----------------------------------------------------------------------------
(* What the properties speak about *)

\* the prompts session s received, in order
RECURSIVE Of(_, _)
Of(h, s) ==
    IF h = <<>> THEN <<>>
    ELSE (IF Head(h).session = s THEN <<Head(h)>> ELSE <<>>) \o Of(Tail(h), s)

Submitted(s) == Of(history, s)

\* the submissions of session s whose assistant Turn has been appended
Completed(s) == Len(Submitted(s)) - (IF pc[s] = "idle" THEN 0 ELSE 1)

\* the text get_groq_response returned for an outcome
Returned(o) ==
    CASE o.kind = "uninitialized" -> NotInitialized
      [] o.kind = "returned" -> o.text
      [] o.kind = "raised" -> ErrorText(o.text)

UserTurn(p) == [role |-> "user", content |-> p]
AssistantTurn(c) == [role |-> "assistant", content |-> c]

\* the i-th submission of session s left its two Turns at 2i and 2i+1
PairStored(s, i) ==
    /\ Len(Transcript(s)) >= 2 * i + 1
    /\ Len(outcomes[s]) >= i
    /\ Transcript(s)[2 * i] = UserTurn(Submitted(s)[i].prompt)
    /\ Transcript(s)[2 * i + 1] = AssistantTurn(Returned(outcomes[s][i]))

----------------------------------------------------------------------------
\* C1 as stated: the transcript of a session is append-only and, after N
\* completed submissions, holds exactly 2N Turns, a user Turn and an assistant
\* Turn per submission.
C1_LengthIsTwiceSubmissions ==
    \A s \in Sessions :
        (HasMessages(s) /\ pc[s] = "idle") =>
            /\ Len(Transcript(s)) = 2 * Completed(s)
            /\ \A i \in 1..Completed(s) :
                   /\ Transcript(s)[2 * i - 1].role = "user"
                   /\ Transcript(s)[2 * i].role = "assistant"

\* C1 amended: the transcript starts with the greeting Turn; it is
\* append-only, and after N completed submissions it holds exactly 2N+1 Turns:
\* the greeting, then per submission, in submission order, the user Turn and the
\* assistant/error Turn that get_groq_response returned.
C1_GreetingThenPairs ==
    /\ [](\A s \in Sessions :
            HasMessages(s) =>
                /\ Transcript(s)[1] = Greeting
                /\ Len(Transcript(s)) =
                       2 * Completed(s) + 1
                       + (IF pc[s] \in {"call", "awaiting", "append_assistant"}
                          THEN 1 ELSE 0)
                /\ \A i \in 1..Completed(s) : PairStored(s, i))
    /\ [][\A s \in Sessions :
            HasMessages(s) =>
                /\ HasMessages(s)'
                /\ IsPrefix(Transcript(s), Transcript(s)')]_vars

C1_Witness ==
    \E s \in Sessions :
        /\ pc[s] = "idle"
        /\ Completed(s) = 2
        /\ Len(Transcript(s)) = 5
        /\ Transcript(s)[4] # Transcript(s)[2]

----------------------------------------------------------------------------
\* C2 as stated: every request to the completion API starts with the system
\* message, the system instruction is the same text in every request of a
\* session, and no stored Turn has role "system" or is the system message.
C2_SameInstructionInEveryCall ==
    \A s \in Sessions :
        /\ \A i \in 1..Len(calls[s]) :
               /\ calls[s][i][1].role = "system"
               /\ calls[s][i][1].content = calls[s][1][1].content
        /\ HasMessages(s) =>
               \A k \in 1..Len(Transcript(s)) :
                   /\ Transcript(s)[k].role # "system"
                   /\ \A i \in 1..Len(calls[s]) :
                          Transcript(s)[k] # calls[s][i][1]

----------------------------------------------------------------------------
\* C3: while a request is with the completion API, it is the system message
\* followed by every Turn of the transcript, in stored order, role and content
\* unchanged; its length is len(transcript)+1 and its last element is the user
\* Turn just submitted.
C3_RequestIsSystemThenTranscript ==
    \A s \in Sessions :
        pc[s] = "awaiting" =>
            LET req == calls[s][Len(calls[s])]
                t == Transcript(s)
            IN  /\ Len(req) = Len(t) + 1
                /\ req[1] = [role |-> "system", content |-> system_prompt[s]]
                /\ \A k \in 1..Len(t) : req[k + 1] = t[k]
                /\ req[Len(req)] = UserTurn(prompt[s])
                /\ Len(calls[s]) + Cardinality({i \in 1..Len(outcomes[s]) :
                        outcomes[s][i].kind = "uninitialized"})
                   = Len(Submitted(s))

C3_Witness ==
    \E s \in Sessions :
        /\ pc[s] = "awaiting"
        /\ Len(calls[s]) = 2
        /\ Len(calls[s][2]) = 5

----------------------------------------------------------------------------
\* the outcomes of session s that came without a request to the API
Uninitialized(s) ==
    {i \in 1..Len(outcomes[s]) : outcomes[s][i].kind = "uninitialized"}

\* C4: in a run whose client is None, no request is made to the completion
\* API, get_groq_response returns the fixed text, and that text is stored as
\* the assistant Turn right after the user Turn; the run ends as every run does.
C4_NoClientFixedReply ==
    \A s \in Sessions :
        /\ ~groq_client[s] =>
              /\ pc[s] # "awaiting"
              /\ pc[s] = "append_assistant" =>
                    /\ full_response[s] = NotInitialized
                    /\ outcomes[s][Len(outcomes[s])].kind = "uninitialized"
                    /\ Transcript(s)[Len(Transcript(s))] = UserTurn(prompt[s])
              /\ (pc[s] = "idle" /\ prompt[s] # NoPrompt) =>
                    LET n == Len(Transcript(s))
                    IN  /\ Transcript(s)[n - 1] = UserTurn(prompt[s])
                        /\ Transcript(s)[n] = AssistantTurn(NotInitialized)
                        /\ outcomes[s][Len(outcomes[s])].kind = "uninitialized"
        /\ Len(calls[s]) + Cardinality(Uninitialized(s))
               = Len(outcomes[s]) + (IF pc[s] = "awaiting" THEN 1 ELSE 0)
        /\ \A i \in Uninitialized(s) :
               i <= Completed(s) =>
                   Transcript(s)[2 * i + 1] = AssistantTurn(NotInitialized)

C4_Witness ==
    \E s \in Sessions :
        /\ pc[s] = "idle"
        /\ ~groq_client[s]
        /\ Completed(s) = 2
        /\ Uninitialized(s) = {1, 2}
        /\ calls[s] = <<>>

----------------------------------------------------------------------------
\* the submissions of session s whose API call raised
Raised(s) == {i \in 1..Len(outcomes[s]) : outcomes[s][i].kind = "raised"}

\* C5: when the API call of a submission raises, the handler returns the error
\* text, which is stored as the assistant Turn after the user Turn of that
\* submission; the script goes on as after a reply, and the request of every
\* later submission carries that error Turn as assistant content.
C5_ErrorBecomesAssistantTurn ==
    \A s \in Sessions :
        \A i \in Raised(s) :
            LET turn == AssistantTurn(ErrorText(outcomes[s][i].text))
            IN  /\ i > Completed(s) =>
                      /\ pc[s] = "append_assistant"
                      /\ full_response[s] = turn.content
                /\ i <= Completed(s) => PairStored(s, i)
                /\ \A j \in 1..Len(calls[s]) :
                       Len(calls[s][j]) > 2 * i + 1 =>
                           calls[s][j][2 * i + 2] = turn

C5_Witness ==
    \E s \in Sessions :
        /\ pc[s] = "idle"
        /\ Completed(s) = 2
        /\ 1 \in Raised(s)
        /\ outcomes[s][2].kind = "returned"
        /\ Len(calls[s]) = 2
        /\ calls[s][2][4].content = ErrorText(outcomes[s][1].text)

----------------------------------------------------------------------------
\* the lines of a text file
RECURSIVE SplitLines(_, _)
SplitLines(text, line) ==
    IF text = <<>> THEN (IF line = <<>> THEN <<>> ELSE <<line>>)
    ELSE IF Head(text) = "\n" THEN <<line>> \o SplitLines(Tail(text), <<>>)
    ELSE SplitLines(Tail(text), Append(line, Head(text)))

LogLine(user_prompt) == <<"[", Timestamp, "] USER PROMPT: ">> \o user_prompt

\* the entries of the prompts whose write succeeded, in submission order
RECURSIVE LoggedEntries(_)
LoggedEntries(h) ==
    IF h = <<>> THEN <<>>
    ELSE (IF Head(h).logged THEN LogEntry(Head(h).prompt) ELSE <<>>)
         \o LoggedEntries(Tail(h))

\* a prompt was received and logged, and its user Turn is not stored yet
BeforeUserTurn(s) ==
    /\ Len(Transcript(s)) = 2 * Completed(s) + 1
    /\ Len(outcomes[s]) = Completed(s)
    /\ Len(calls[s]) + Cardinality(Uninitialized(s)) = Completed(s)

\* C6 as stated: every user turn has exactly one line in the log, written
\* before the user Turn is stored and before the API is invoked; the lines of
\* the log are the prompts in submission order.
C6_OneLinePerUserTurn ==
    /\ SplitLines(chat_logs, <<>>) =
           [i \in 1..Len(history) |-> LogLine(history[i].prompt)]
    /\ \A s \in Sessions : pc[s] = "append_user" => BeforeUserTurn(s)

\* C6 amended: a user turn whose write succeeds appends exactly one entry
\* "[timestamp] USER PROMPT: <prompt>\n" to the log (k+1 lines for a prompt
\* with k newlines) and a user turn whose write fails appends nothing, in both
\* cases before the user Turn is stored and before the API is invoked; so the
\* log is the entries of the logged prompts in submission order, and it holds
\* the entry of a logged prompt when the API call of that prompt fails.
C6_OneEntryPerLoggedPrompt ==
    /\ chat_logs = LoggedEntries(history)
    /\ Len(SplitLines(chat_logs, <<>>)) =
           Cardinality({i \in 1..Len(history) : history[i].logged})
           + Newlines(Flatten([i \in 1..Len(history) |->
                 IF history[i].logged THEN history[i].prompt ELSE <<>>]))
    /\ \A s \in Sessions : pc[s] = "append_user" => BeforeUserTurn(s)

C6_Witness ==
    \E s \in Sessions :
        /\ pc[s] = "append_assistant"
        /\ Len(outcomes[s]) \in Raised(s)
        /\ Len(history) = 2
        /\ history[1].logged /\ history[2].logged
        /\ history[1].prompt # history[2].prompt
        /\ chat_logs = LogEntry(history[1].prompt) \o LogEntry(history[2].prompt)

----------------------------------------------------------------------------
\* the user turns whose log write failed
Unlogged == {i \in 1..Len(history) : ~history[i].logged}

UnloggedOf(s) == {i \in 1..Len(Submitted(s)) : ~Submitted(s)[i].logged}

\* the number of entries of the log
Entries(log) ==
    Cardinality({k \in 1..Len(log) : log[k] = "] USER PROMPT: "})

\* C7: a failed log write is printed and nothing else: the log has no entry
\* for that prompt, no notice is shown to the user, the run goes on to store
\* the user Turn, and the transcript gets the user Turn and the assistant Turn
\* of that submission as it does for a logged one.
C7_LogFailureIsSwallowed ==
    /\ Len(stdout) = Cardinality(Unlogged)
    /\ \A k \in 1..Len(stdout) : stdout[k][1] = "Error logging prompt: "
    /\ Entries(chat_logs) = Len(history) - Cardinality(Unlogged)
    /\ \A s \in Sessions :
           /\ \A k \in 1..Len(notices[s]) : notices[s][k].about # "log"
           /\ \A i \in UnloggedOf(s) :
                  IF i <= Completed(s)
                  THEN PairStored(s, i)
                  ELSE /\ pc[s] # "idle"
                       /\ prompt[s] = Submitted(s)[i].prompt
                       /\ pc[s] \in {"call", "awaiting", "append_assistant"} =>
                              Transcript(s)[2 * i] = UserTurn(prompt[s])

C7_Witness ==
    \E s \in Sessions :
        /\ pc[s] = "idle"
        /\ Completed(s) = 2
        /\ UnloggedOf(s) = {1}
        /\ outcomes[s][1].kind = "returned"
        /\ Len(Transcript(s)) = 5
        /\ chat_logs = LogEntry(Submitted(s)[2].prompt)

----------------------------------------------------------------------------
Shown(s, kind, about) ==
    \E k \in 1..Len(notices[s]) :
        notices[s][k] = [kind |-> kind, about |-> about]

\* the PDF is there and PdfReader or extract_text raises, on whatever page
PdfReadFails(pdf) ==
    /\ pdf.exists
    /\ \/ ~pdf.opens
       \/ \E k \in 1..Len(pdf.pages) : pdf.pages[k].raises

\* C8 as stated: for each of the two files, an absent file gives the empty
\* text and a warning, and a file whose reading fails at any point, also on a
\* later page of the PDF, gives the empty text and an error.
C8_FailedReadGivesEmptyText ==
    \A s \in Sessions :
        HasMessages(s) =>
            /\ ~files[s].pdf.exists =>
                   linkedin[s] = <<>> /\ Shown(s, "warning", "pdf")
            /\ PdfReadFails(files[s].pdf) =>
                   linkedin[s] = <<>> /\ Shown(s, "error", "pdf")
            /\ ~files[s].summary.exists =>
                   summary[s] = <<>> /\ Shown(s, "warning", "summary")
            /\ (files[s].summary.exists /\ ~files[s].summary.reads) =>
                   summary[s] = <<>> /\ Shown(s, "error", "summary")

----------------------------------------------------------------------------
\* C9 as stated: the preview is the first min(500, len) characters of the
\* profile text, followed by "..." if and only if len > 500.
C9_EllipsisOnlyIfTruncated ==
    \A s \in Sessions :
        HasMessages(s) =>
            panel[s].snippet =
                Take(linkedin[s], PreviewLimit)
                \o (IF Len(linkedin[s]) > PreviewLimit THEN Ellipsis ELSE <<>>)

\* C9 amended: for a non-empty profile text the preview is the first
\* min(500, len) characters of the text followed by "...", whether or not the
\* text was truncated; for the empty profile text it is the placeholder
\* "No LinkedIn data loaded.".
C9_EllipsisAfterEveryText ==
    \A s \in Sessions :
        HasMessages(s) =>
            LET n == Min(PreviewLimit, Len(linkedin[s]))
                shown == panel[s].snippet
            IN  IF Len(linkedin[s]) = 0
                THEN shown = NoLinkedin
                ELSE /\ Len(shown) = n + 3
                     /\ \A k \in 1..n : shown[k] = linkedin[s][k]
                     /\ \A k \in n + 1..n + 3 : shown[k] = "."

C9_Witness ==
    \E s \in Sessions :
        /\ HasMessages(s)
        /\ Len(linkedin[s]) = PreviewLimit
        /\ Len(panel[s].snippet) = PreviewLimit + 3

----------------------------------------------------------------------------
\* the user Turns of a transcript
UserTurns(t) == {k \in 1..Len(t) : t[k].role = "user"}

====
